---- MODULE Spec2Model ----
(***************************************************************************)
(* Model of the autoplay bot of Setrixtui (src/src/autoplay.rs): the grid  *)
(* helpers, the simplified sand settling, the board evaluator, the         *)
(* placement search of Bot::find_best_move and the action sequencer.       *)
(*                                                                         *)
(* A grid is the flat buffer of the source: a function on 0..gw*gh-1,      *)
(* indexed by y*gw + x, holding 0 (empty) or color+1.                      *)
(*                                                                         *)
(* Scores are f32 in the source.  Here they are exact rationals, held as   *)
(* integers in units of 1/(40*gw), so that equal scores are equal and a   *)
(* difference of 100.0 is a difference of W_DANGER*gw.                     *)
(***************************************************************************)
EXTENDS Integers, Sequences, FiniteSets, TLC

VARIABLES
    \* settle_sand, pass by pass (and a second run on its own output)
    grid, grid_in, pass, moved, run, settle_pc, first_out, first_conv, first_pass,
    \* evaluate and its sub-heuristics on one grid
    e_grid, e_gw, e_gh, placed_color, e_out, eval_pc,
    \* build_actions on its four arguments
    b_in, b_actions, build_pc,
    \* Bot::find_best_move: the game state read, the loop position, best
    state, base_grid, best, r, step, log, actions, search_pc

settle_vars == <<grid, grid_in, pass, moved, run, settle_pc, first_out, first_conv, first_pass>>
eval_vars   == <<e_grid, e_gw, e_gh, placed_color, e_out, eval_pc>>
build_vars  == <<b_in, b_actions, build_pc>>
search_vars == <<state, base_grid, best, r, step, log, actions, search_pc>>
vars == <<settle_vars, eval_vars, build_vars, search_vars>>

-----------------------------------------------------------------------------
(* Bounds of the model *)

SettleW == 3
SettleH == 3
EvalW == 3
EvalH == 2
DangerW == 2
DangerExtra == 1
MaxBlocks == 3
BlocksWide == 3
BlocksHigh == 2

-----------------------------------------------------------------------------
(* Program constants *)

\* crate::game::GRAIN_SCALE: grains per block side (defined outside autoplay.rs)
GRAIN_SCALE == 2
\* for pass in 0..80
MAX_PASSES == 80
\* for color in 1..=6u8
NUM_COLORS == 6
\* gh.saturating_sub(10)
DANGER_MARGIN == 10

\* The weights of evaluate, in units of 1/40 (50.0 is 2000, 0.15 is 6).
W_SPAN_CLEAR == 2000
W_HOLES == 320
W_MAX_HEIGHT == 140
W_AGG_HEIGHT == 6
W_BUMPINESS == 60
W_H_ADJACENCY == 32
W_V_ADJACENCY == 8
W_PROXIMITY == 20
W_REACH == 200
W_DANGER == 4000

\* the four orthogonal neighbours only
NEIGHBOURS_4 == << <<-1, 0>>, <<0, -1>>, <<0, 1>>, <<1, 0>> >>

NEIGHBOURS_8 ==
    << <<-1, -1>>, <<-1, 0>>, <<-1, 1>>,
       <<0, -1>>,             <<0, 1>>,
       <<1, -1>>,  <<1, 0>>,  <<1, 1>> >>

-----------------------------------------------------------------------------
(* Arithmetic of the source *)

\* usize::saturating_sub
SatSub(a, b) == IF a >= b THEN a - b ELSE 0

\* i32 division truncates toward zero (\div floors)
TruncDiv(a, b) == IF a >= 0 THEN a \div b ELSE -((-a) \div b)

Abs(a) == IF a < 0 THEN -a ELSE a

Cells(gw, gh) == 0 .. (gw * gh - 1)

\* number of occupied (non-zero) cells
Occupied(g) == Cardinality({i \in DOMAIN g : g[i] # 0})

-----------------------------------------------------------------------------
(* settle_sand *)

\* go_left = if can_left && can_right { left_first } else { can_left }
GoLeftForced(can_left, can_right, left_first) == left_first

GoLeft(can_left, can_right, left_first) ==
    IF can_left /\ can_right THEN left_first ELSE can_left

\* The body of the inner loop for the cell (x, y), y < gh-1; a diagonal move to
\* the right that leaves `moved` unset.
SettleCellSilentRight(g, gw, x, y, left_first) ==
    LET idx == y * gw + x
        c == g[idx]
        below == (y + 1) * gw + x
    IN  IF c = 0 THEN [grid |-> g, moved |-> FALSE]
        ELSE IF g[below] = 0
        THEN [grid |-> [g EXCEPT ![below] = c, ![idx] = 0], moved |-> TRUE]
        ELSE LET can_left == x > 0 /\ g[below - 1] = 0
                 can_right == x + 1 < gw /\ g[below + 1] = 0
                 go_left == GoLeft(can_left, can_right, left_first)
             IN  IF go_left
                 THEN [grid |-> [g EXCEPT ![below - 1] = c, ![idx] = 0], moved |-> TRUE]
                 ELSE IF can_right
                 THEN [grid |-> [g EXCEPT ![below + 1] = c, ![idx] = 0], moved |-> FALSE]
                 ELSE [grid |-> g, moved |-> FALSE]

\* The body of the inner loop for the cell (x, y), y < gh-1: the grid after it
\* and whether it moved the grain.
SettleCell(g, gw, x, y, left_first) ==
    LET idx == y * gw + x
        c == g[idx]
        below == (y + 1) * gw + x
    IN  IF c = 0 THEN [grid |-> g, moved |-> FALSE]
        ELSE IF g[below] = 0
        THEN [grid |-> [g EXCEPT ![below] = c, ![idx] = 0], moved |-> TRUE]
        ELSE LET can_left == x > 0 /\ g[below - 1] = 0
                 can_right == x + 1 < gw /\ g[below + 1] = 0
                 go_left == GoLeft(can_left, can_right, left_first)
             IN  IF go_left
                 THEN [grid |-> [g EXCEPT ![below - 1] = c, ![idx] = 0], moved |-> TRUE]
                 ELSE IF can_right
                 THEN [grid |-> [g EXCEPT ![below + 1] = c, ![idx] = 0], moved |-> TRUE]
                 ELSE [grid |-> g, moved |-> FALSE]

\* for x in 0..gw { ... }: row y from column x on; mv is `moved` so far.
RECURSIVE SettleRow(_, _, _, _, _, _)
SettleRow(g, gw, x, y, left_first, mv) ==
    IF x >= gw THEN [grid |-> g, moved |-> mv]
    ELSE LET res == SettleCell(g, gw, x, y, left_first)
         IN  IF res.moved
             THEN SettleRow(res.grid, gw, x + 1, y, left_first, TRUE)
             ELSE SettleRow(res.grid, gw, x + 1, y, left_first, mv)

\* for y in (0..gh.saturating_sub(1)).rev() { ... }: n rows are done, the row
\* gh-2 first.
RECURSIVE SettleScan(_, _, _, _, _, _)
SettleScan(g, gw, gh, left_first, n, mv) ==
    IF n >= SatSub(gh, 1)
    THEN [grid |-> g, moved |-> mv]
    ELSE LET res == SettleRow(g, gw, 0, gh - 2 - n, left_first, mv)
         IN  IF res.moved
             THEN SettleScan(res.grid, gw, gh, left_first, n + 1, TRUE)
             ELSE SettleScan(res.grid, gw, gh, left_first, n + 1, FALSE)

\* One pass of the outer loop: left_first = pass % 2 == 0.
SettlePass(g, gw, gh, p) == SettleScan(g, gw, gh, p % 2 = 0, 0, FALSE)

RECURSIVE SettleLoop(_, _, _, _)
SettleLoop(g, gw, gh, p) ==
    IF p >= MAX_PASSES THEN g
    ELSE LET res == SettlePass(g, gw, gh, p)
         IN  IF ~res.moved THEN res.grid ELSE SettleLoop(res.grid, gw, gh, p + 1)

settle_sand(g, gw, gh) == SettleLoop(g, gw, gh, 0)

-----------------------------------------------------------------------------
(* settle_sand as a process: one action per pass *)

\* Input grids: every occupancy of a SettleW x SettleH grid, the grain at
\* (x, y) having value 1 + (x + y) % 2, so that neighbours differ.
SettleInputs ==
    { [i \in Cells(SettleW, SettleH) |->
          IF i \in occ THEN 1 + (((i % SettleW) + (i \div SettleW)) % 2) ELSE 0]
      : occ \in SUBSET Cells(SettleW, SettleH) }

SettleIdle ==
    /\ grid = <<>> /\ grid_in = <<>> /\ pass = 0 /\ moved = FALSE /\ run = 0
    /\ settle_pc = "idle" /\ first_out = <<>> /\ first_conv = FALSE /\ first_pass = 0

SettleInit ==
    /\ grid_in \in SettleInputs
    /\ grid = grid_in
    /\ pass = 0 /\ moved = FALSE /\ run = 1
    /\ settle_pc = "loop"
    /\ first_out = <<>> /\ first_conv = FALSE /\ first_pass = 0

\* One iteration of `for pass in 0..80`, with its `if !moved { break; }`:
\* pass counts the passes run; the loop is left on a pass that moved nothing
\* or after the last pass.
SettleStep ==
    /\ settle_pc = "loop"
    /\ pass < MAX_PASSES
    /\ LET res == SettlePass(grid, SettleW, SettleH, pass)
       IN  /\ grid' = res.grid
           /\ moved' = res.moved
           /\ pass' = pass + 1
           /\ settle_pc' = IF ~res.moved \/ pass + 1 >= MAX_PASSES THEN "done" ELSE "loop"
    /\ UNCHANGED <<grid_in, run, first_out, first_conv, first_pass>>
    /\ UNCHANGED <<eval_vars, build_vars, search_vars>>

\* settle_sand called again on the grid it returned.
SettleAgain ==
    /\ settle_pc = "done"
    /\ run = 1
    /\ run' = 2
    /\ first_out' = grid
    /\ first_conv' = ~moved
    /\ first_pass' = pass - 1
    /\ pass' = 0 /\ moved' = FALSE
    /\ settle_pc' = "loop"
    /\ UNCHANGED <<grid, grid_in>>
    /\ UNCHANGED <<eval_vars, build_vars, search_vars>>

-----------------------------------------------------------------------------
(* count_spanning_clears *)

XOf(i, gw) == i % gw
YOf(i, gw) == i \div gw

\* for &(dx, dy) in &NEIGHBOURS_8 { ... visited.insert(npos); stack.push(npos); }
\* sv is the pair of the stack and the visited set; n is the neighbour's index.
RECURSIVE PushNeighbours(_, _, _, _, _, _, _, _)
PushNeighbours(g, gw, gh, color, x, y, n, sv) ==
    IF n > Len(NEIGHBOURS_8) THEN sv
    ELSE LET nx == x + NEIGHBOURS_8[n][1]
             ny == y + NEIGHBOURS_8[n][2]
             npos == <<nx, ny>>
             take == /\ nx >= 0 /\ nx < gw /\ ny >= 0 /\ ny < gh
                     /\ g[ny * gw + nx] = color
                     /\ npos \notin sv.visited
         IN  PushNeighbours(g, gw, gh, color, x, y, n + 1,
                 IF take
                 THEN [stack |-> Append(sv.stack, npos), visited |-> sv.visited \cup {npos}]
                 ELSE sv)

\* while let Some((x, y)) = stack.pop() { ... }: the visited set when the stack
\* is empty, and whether a popped cell lay in column gw-1.
RECURSIVE Flood(_, _, _, _, _, _)
Flood(g, gw, gh, color, sv, touches_right) ==
    IF sv.stack = <<>> THEN [visited |-> sv.visited, touches_right |-> touches_right]
    ELSE LET top == sv.stack[Len(sv.stack)]
             popped == [stack |-> SubSeq(sv.stack, 1, Len(sv.stack) - 1),
                        visited |-> sv.visited]
         IN  Flood(g, gw, gh, color,
                   PushNeighbours(g, gw, gh, color, top[1], top[2], 1, popped),
                   touches_right \/ top[1] = gw - 1)

\* for color in 1..=6u8 { for start_y in 0..gh { ... } }: k numbers the
\* (color, start_y) pairs in the order of the loops.
RECURSIVE ClearsScan(_, _, _, _, _, _)
ClearsScan(g, gw, gh, k, visited, clears) ==
    IF k >= NUM_COLORS * gh THEN clears
    ELSE LET color == 1 + (k \div gh)
             start_y == k % gh
             pos == <<0, start_y>>
         IN  IF g[start_y * gw] # color \/ pos \in visited
             THEN ClearsScan(g, gw, gh, k + 1, visited, clears)
             ELSE LET f == Flood(g, gw, gh, color,
                                 [stack |-> <<pos>>, visited |-> visited \cup {pos}],
                                 FALSE)
                  IN  ClearsScan(g, gw, gh, k + 1, f.visited,
                                 IF f.touches_right THEN clears + 1 ELSE clears)

count_spanning_clears(g, gw, gh) == ClearsScan(g, gw, gh, 0, {}, 0)

-----------------------------------------------------------------------------
(* same_color_proximity *)

\* for y in 0..gh { for x in 0..gw { ... } }: k is the flat index y*gw + x.
RECURSIVE ProximityScan(_, _, _, _, _, _)
ProximityScan(g, gw, gh, color_val, k, count) ==
    IF k >= gw * gh THEN count
    ELSE IF g[k] # color_val THEN ProximityScan(g, gw, gh, color_val, k + 1, count)
    ELSE LET x == XOf(k, gw)
             l == IF x > 0 /\ g[k - 1] = color_val THEN 1 ELSE 0
             rt == IF x + 1 < gw /\ g[k + 1] = color_val THEN 1 ELSE 0
         IN  ProximityScan(g, gw, gh, color_val, k + 1, count + l + rt)

same_color_proximity(g, gw, gh, color_val) == ProximityScan(g, gw, gh, color_val, 0, 0)

-----------------------------------------------------------------------------
(* color_reach_bonus, in units of 1/(40*gw) *)

SetMin(S) == CHOOSE m \in S : \A n \in S : m <= n
SetMax(S) == CHOOSE m \in S : \A n \in S : m >= n

\* The bonus of one color: ratio = reach/gw; (ratio - 0.5)*base_reach when
\* ratio > 0.5; base_reach*0.75 when both edges are touched; ratio*base_reach*0.125
\* for each edge touched.
ColorReach(g, gw, gh, color, base_reach) ==
    LET xs == {XOf(i, gw) : i \in {j \in Cells(gw, gh) : g[j] = color}}
    IN  IF xs = {} THEN 0
        ELSE LET min_x == SetMin(xs)
                 max_x == SetMax(xs)
                 reach == max_x - min_x
             IN  IF min_x >= max_x THEN 0
                 ELSE (IF 2 * reach > gw
                       THEN base_reach * reach - (base_reach \div 2) * gw ELSE 0)
                    + (IF min_x = 0 /\ max_x = gw - 1
                       THEN ((3 * base_reach) \div 4) * gw ELSE 0)
                    + (IF min_x = 0 THEN (base_reach \div 8) * reach ELSE 0)
                    + (IF max_x = gw - 1 THEN (base_reach \div 8) * reach ELSE 0)

RECURSIVE ReachScan(_, _, _, _, _)
ReachScan(g, gw, gh, base_reach, color) ==
    IF color > NUM_COLORS THEN 0
    ELSE ColorReach(g, gw, gh, color, base_reach)
         + ReachScan(g, gw, gh, base_reach, color + 1)

color_reach_bonus(g, gw, gh, base_reach) == ReachScan(g, gw, gh, base_reach, 1)

-----------------------------------------------------------------------------
(* evaluate, in units of 1/(40*gw) *)

\* sum of f[i] for i in lo..hi
RECURSIVE SumFn(_, _, _)
SumFn(f, lo, hi) == IF hi < lo THEN 0 ELSE f[hi] + SumFn(f, lo, hi - 1)

\* col_heights[x] = gh - y for the topmost occupied y of column x, else 0
ColHeights(g, gw, gh) ==
    [x \in 0 .. (gw - 1) |->
        LET ys == {y \in 0 .. (gh - 1) : g[y * gw + x] # 0}
        IN  IF ys = {} THEN 0 ELSE gh - SetMin(ys)]

\* empty cells below the topmost occupied cell of their column
Holes(g, gw, gh) ==
    LET h == ColHeights(g, gw, gh)
    IN  Cardinality({i \in Cells(gw, gh) :
                        g[i] = 0 /\ h[XOf(i, gw)] > 0 /\ YOf(i, gw) > gh - h[XOf(i, gw)]})

\* *col_heights.iter().max().unwrap_or(&0)
MaxHeight(g, gw, gh) ==
    LET h == ColHeights(g, gw, gh)
    IN  IF gw = 0 THEN 0 ELSE SetMax({h[x] : x \in 0 .. (gw - 1)})

AggHeight(g, gw, gh) == SumFn(ColHeights(g, gw, gh), 0, gw - 1)

\* col_heights.windows(2).map(|w| (w[0] - w[1]).abs()).sum()
Bumpiness(g, gw, gh) ==
    LET h == ColHeights(g, gw, gh)
    IN  SumFn([x \in 0 .. (gw - 2) |-> Abs(h[x] - h[x + 1])], 0, gw - 2)

HAdj(g, gw, gh) ==
    Cardinality({i \in Cells(gw, gh) :
                    g[i] # 0 /\ XOf(i, gw) + 1 < gw /\ g[i + 1] = g[i]})

VAdj(g, gw, gh) ==
    Cardinality({i \in Cells(gw, gh) :
                    g[i] # 0 /\ YOf(i, gw) + 1 < gh /\ g[i + gw] = g[i]})

\* if max_height > gh.saturating_sub(10)
DangerTriggeredAtMargin(max_height, gh) == max_height >= SatSub(gh, DANGER_MARGIN)

DangerTriggered(max_height, gh) == max_height > SatSub(gh, DANGER_MARGIN)

evaluate(g, gw, gh, placed) ==
    LET placed_val == placed + 1
        max_height == MaxHeight(g, gw, gh)
    IN  gw * ( count_spanning_clears(g, gw, gh) * W_SPAN_CLEAR
             - Holes(g, gw, gh) * W_HOLES
             - max_height * W_MAX_HEIGHT
             - AggHeight(g, gw, gh) * W_AGG_HEIGHT
             - Bumpiness(g, gw, gh) * W_BUMPINESS
             + HAdj(g, gw, gh) * W_H_ADJACENCY
             + VAdj(g, gw, gh) * W_V_ADJACENCY
             + same_color_proximity(g, gw, gh, placed_val) * W_PROXIMITY )
        + color_reach_bonus(g, gw, gh, W_REACH)
        - (IF DangerTriggered(max_height, gh) THEN W_DANGER * gw ELSE 0)

-----------------------------------------------------------------------------
(* evaluate applied to input grids *)

EvalIdle ==
    /\ e_grid = <<>> /\ e_gw = 0 /\ e_gh = 0 /\ placed_color = 0
    /\ e_out = <<>> /\ eval_pc = "idle"

\* Input grids: the cells `occ` of a gw x gh grid occupied, the grain at (x, y)
\* of color 1 + (a*x + b*y) % 2: one color (a = b = 0), alternating columns,
\* alternating rows, or a checkerboard.
Painted(gw, gh, occ, a, b) ==
    [i \in Cells(gw, gh) |->
        IF i \in occ THEN 1 + ((a * XOf(i, gw) + b * YOf(i, gw)) % 2) ELSE 0]

\* Every occupancy of an EvalW x EvalH grid, in each coloring; either color placed.
EvalInit ==
    /\ e_gw = EvalW /\ e_gh = EvalH
    /\ \E occ \in SUBSET Cells(EvalW, EvalH), a \in {0, 1}, b \in {0, 1} :
          e_grid = Painted(EvalW, EvalH, occ, a, b)
    /\ placed_color \in {0, 1}
    /\ e_out = <<>> /\ eval_pc = "start"

\* evaluate, lines 272 and 329: clears and proximity_bonus
EvaluateTerms ==
    /\ eval_pc = "start"
    /\ e_out' = [clears |-> count_spanning_clears(e_grid, e_gw, e_gh),
                 proximity |-> same_color_proximity(e_grid, e_gw, e_gh, placed_color + 1)]
    /\ eval_pc' = "done"
    /\ UNCHANGED <<e_grid, e_gw, e_gh, placed_color>>
    /\ UNCHANGED <<settle_vars, build_vars, search_vars>>

\* The row of the topmost cell of a column of height gh - (DANGER_MARGIN - 1).
DangerRow == DANGER_MARGIN - 1

\* Grids whose tallest column has height gh - 9: nothing above row 9, something
\* in row 9, anything (holes included) below.
DangerInit ==
    /\ e_gw = DangerW
    /\ e_gh \in DANGER_MARGIN .. (DANGER_MARGIN + DangerExtra)
    /\ \E occ \in SUBSET (Cells(DangerW, e_gh) \ Cells(DangerW, DangerRow)),
             a \in {0, 1}, b \in {0, 1} :
          /\ \E i \in occ : YOf(i, DangerW) = DangerRow
          /\ e_grid = Painted(DangerW, e_gh, occ, a, b)
    /\ placed_color \in {0, 1}
    /\ e_out = <<>> /\ eval_pc = "start"

\* The grid with the topmost cell of each tallest column removed.
Shorter(g, gw, gh) ==
    LET top == gh - MaxHeight(g, gw, gh)
    IN  [i \in Cells(gw, gh) |-> IF YOf(i, gw) = top THEN 0 ELSE g[i]]

\* The same content in a grid of height gh + 1: one more empty row on top.
Raised(g, gw, gh) ==
    [i \in Cells(gw, gh + 1) |-> IF i < gw THEN 0 ELSE g[i - gw]]

EvaluateDanger ==
    /\ eval_pc = "start"
    /\ e_out' = [score |-> evaluate(e_grid, e_gw, e_gh, placed_color),
                 shorter |-> evaluate(Shorter(e_grid, e_gw, e_gh), e_gw, e_gh, placed_color),
                 raised |-> evaluate(Raised(e_grid, e_gw, e_gh), e_gw, e_gh + 1, placed_color)]
    /\ eval_pc' = "done"
    /\ UNCHANGED <<e_grid, e_gw, e_gh, placed_color>>
    /\ UNCHANGED <<settle_vars, build_vars, search_vars>>

-----------------------------------------------------------------------------
(* build_actions *)

\* r = (r + 1) % 4
NextRot(rot) == (rot + 1) % 4

\* while r != target_rot { actions.push_back(Action::RotateCw); r = (r + 1) % 4; }
RECURSIVE Rotations(_, _)
Rotations(rot, target_rot) ==
    IF rot = target_rot THEN <<>>
    ELSE <<"RotateCw">> \o Rotations(NextRot(rot), target_rot)

Repeat(a, n) == [i \in 1 .. n |-> a]

\* steps = diff, the division by GRAIN_SCALE left out
LateralStepsInGrains(cur_gx, target_gx) == target_gx - cur_gx

\* let diff = target_gx - cur_gx; let steps = diff / GRAIN_SCALE as i32;
LateralSteps(cur_gx, target_gx) == TruncDiv(target_gx - cur_gx, GRAIN_SCALE)

Laterals(cur_gx, target_gx) ==
    LET steps == LateralSteps(cur_gx, target_gx)
    IN  IF steps < 0 THEN Repeat("MoveLeft", Abs(steps)) ELSE Repeat("MoveRight", steps)

\* the lateral moves pushed before the rotations
build_actions_moves_first(cur_rot, target_rot, cur_gx, target_gx) ==
    Laterals(cur_gx, target_gx) \o Rotations(cur_rot, target_rot) \o <<"HardDrop">>

build_actions(cur_rot, target_rot, cur_gx, target_gx) ==
    Rotations(cur_rot, target_rot) \o Laterals(cur_gx, target_gx) \o <<"HardDrop">>

BuildIdle == b_in = <<>> /\ b_actions = <<>> /\ build_pc = "idle"

\* Every pair of rotations and every pair of columns up to MaxBlocks blocks apart
\* (whole blocks or not).
BuildInit ==
    /\ b_in \in [cur_rot : 0 .. 3, target_rot : 0 .. 3,
                 cur_gx : {0, GRAIN_SCALE},
                 target_gx : (0 - MaxBlocks * GRAIN_SCALE) .. (MaxBlocks * GRAIN_SCALE)]
    /\ b_actions = <<>>
    /\ build_pc = "start"

Build ==
    /\ build_pc = "start"
    /\ b_actions' = build_actions(b_in.cur_rot, b_in.target_rot, b_in.cur_gx, b_in.target_gx)
    /\ build_pc' = "done"
    /\ UNCHANGED b_in
    /\ UNCHANGED <<settle_vars, eval_vars, search_vars>>

-----------------------------------------------------------------------------
(* The game state find_best_move reads (crate::game, outside autoplay.rs) *)

\* A playfield cell: <<>> is empty, <<c>> is Cell::Sand(c, _).
NoSand == <<>>
Sand(c) == <<c>>

Kinds == {"Bar", "Ell"}

\* The blocks of a piece kind at a rotation, in block units from its origin.
Blocks(kind, rot) ==
    IF kind = "Bar"
    THEN CASE rot = 0 -> {<<0, 0>>, <<1, 0>>}
           [] rot = 1 -> {<<1, 0>>, <<1, 1>>}
           [] rot = 2 -> {<<0, 1>>, <<1, 1>>}
           [] OTHER   -> {<<0, 0>>, <<0, 1>>}
    ELSE CASE rot = 0 -> {<<0, 0>>, <<0, 1>>, <<1, 1>>}
           [] rot = 1 -> {<<0, 0>>, <<1, 0>>, <<0, 1>>}
           [] rot = 2 -> {<<0, 0>>, <<1, 0>>, <<1, 1>>}
           [] OTHER   -> {<<1, 0>>, <<0, 1>>, <<1, 1>>}

\* Piece::cell_grain_origins: the grain origin of each block.
cell_grain_origins(piece) ==
    {<<piece.gx + b[1] * GRAIN_SCALE, piece.gy + b[2] * GRAIN_SCALE>> :
        b \in Blocks(piece.kind, piece.rotation)}

\* PieceKind::color_index
color_index(kind) == IF kind = "Bar" THEN 0 ELSE 1

\* for (gx_o, gy_o) in piece.cell_grain_origins() { for dy in 0..GRAIN_SCALE {
\* for dx in 0..GRAIN_SCALE { ... } } }: the grains visited.
PieceGrains(piece) ==
    {<<o[1] + dx, o[2] + dy>> :
        o \in cell_grain_origins(piece),
        dx \in 0 .. (GRAIN_SCALE - 1), dy \in 0 .. (GRAIN_SCALE - 1)}

\* Playfield::can_place_with_frozen: every grain of the piece within the left,
\* right and bottom bounds, and those on the board on an empty cell that holds
\* no frozen grain.
can_place_with_frozen(st, piece) ==
    \A gr \in PieceGrains(piece) :
        /\ gr[1] >= 0 /\ gr[1] < st.gw /\ gr[2] < st.gh
        /\ gr[2] >= 0 =>
              /\ st.pf[gr[2] * st.gw + gr[1]] = NoSand
              /\ \A n \in 1 .. Len(st.frozen) :
                    ~(st.frozen[n].x = gr[1] /\ st.frozen[n].y = gr[2])

-----------------------------------------------------------------------------
(* Grid helpers *)

\* for fg in frozen { if fg.x < gw && fg.y < gh { grid[..] = fg.color_index + 1; } }
RECURSIVE OverlayFrozen(_, _, _, _, _)
OverlayFrozen(g, frozen, gw, gh, n) ==
    IF n > Len(frozen) THEN g
    ELSE LET fg == frozen[n]
         IN  OverlayFrozen(
                 IF fg.x < gw /\ fg.y < gh
                 THEN [g EXCEPT ![fg.y * gw + fg.x] = fg.color_index + 1]
                 ELSE g,
                 frozen, gw, gh, n + 1)

snapshot_grid(pf, frozen, gw, gh) ==
    OverlayFrozen([i \in Cells(gw, gh) |-> IF pf[i] = NoSand THEN 0 ELSE pf[i][1] + 1],
                  frozen, gw, gh, 1)

can_place_on_grid(g, gw, gh, piece) ==
    \A gr \in PieceGrains(piece) :
        /\ ~(gr[1] < 0 \/ gr[1] >= gw \/ gr[2] >= gh)
        /\ gr[2] >= 0 => g[gr[2] * gw + gr[1]] = 0

\* if gx >= 0 && gx < gw as i32 && gy >= 0 && gy < gh as i32 { grid[..] = color; }
\* for each grain of `grains` (every write stores the same color: the order of
\* the grains is immaterial).
RECURSIVE StampGrains(_, _, _, _, _)
StampGrains(g, gw, gh, grains, color) ==
    IF grains = {} THEN g
    ELSE LET gr == CHOOSE q \in grains : TRUE
         IN  StampGrains(
                 IF gr[1] >= 0 /\ gr[1] < gw /\ gr[2] >= 0 /\ gr[2] < gh
                 THEN [g EXCEPT ![gr[2] * gw + gr[1]] = color]
                 ELSE g,
                 gw, gh, grains \ {gr}, color)

stamp_piece(g, gw, gh, piece, color) == StampGrains(g, gw, gh, PieceGrains(piece), color)

-----------------------------------------------------------------------------
(* Bot::find_best_move *)

\* loop { test_piece.gy = land_y + 1; if !can_place_on_grid(..) { break; } land_y += 1; }
RECURSIVE DropFrom(_, _, _, _, _)
DropFrom(g, gw, gh, pc, land_y) ==
    IF ~can_place_on_grid(g, gw, gh, [pc EXCEPT !.gy = land_y + 1])
    THEN land_y
    ELSE DropFrom(g, gw, gh, pc, land_y + 1)

\* the row of the failed test kept instead of the last row that passed
LandYPastContact(g, gw, gh, pc) == DropFrom(g, gw, gh, pc, pc.gy) + 1

\* let mut land_y = test_piece.gy; loop { .. }: the landing row
LandY(g, gw, gh, pc) == DropFrom(g, gw, gh, pc, pc.gy)

\* f32::NEG_INFINITY, and a finite score
NEG_INFINITY == [inf |-> TRUE, v |-> 0]
Finite(v) == [inf |-> FALSE, v |-> v]

\* score >= best.score
ScoreGe(score, best_score) == best_score.inf \/ score >= best_score.v

\* if score > best.score, score finite
ScoreGt(score, best_score) == best_score.inf \/ score > best_score.v

\* The candidate whose test piece (gy = 0) passed the spawn check: hard-drop,
\* clone, stamp, settle, evaluate.
CandidateResult(st, base, tp) ==
    LET land_y == LandY(base, st.gw, st.gh, tp)
        piece_color == color_index(tp.kind)
        stamped == stamp_piece(base, st.gw, st.gh,
                               [tp EXCEPT !.gy = land_y], piece_color + 1)
        settled == settle_sand(stamped, st.gw, st.gh)
    IN  [land_y |-> land_y, score |-> evaluate(settled, st.gw, st.gh, piece_color)]

GridW == BlocksWide * GRAIN_SCALE
GridH == BlocksHigh * GRAIN_SCALE

\* Playfields: the bottom h rows filled with sand of color c, but for the column gap.
Playfield(h, c, gap) ==
    [i \in Cells(GridW, GridH) |->
        IF YOf(i, GridW) >= GridH - h /\ XOf(i, GridW) # gap THEN Sand(c) ELSE NoSand]

Playfields ==
    {Playfield(h, c, gap) :
        h \in {0, 1, GridH - GRAIN_SCALE}, c \in {0, 1}, gap \in {-1, 0, GridW - 1}}
    \cup {Playfield(GridH, 0, gap) : gap \in {-1, 0}}

\* Frozen grains: none, one on the board (bottom of column 0), one off the board.
FrozenLists ==
    { <<>>,
      <<[x |-> 0, y |-> GridH - 1, color_index |-> 1]>>,
      <<[x |-> GridW, y |-> 0, color_index |-> 0]>> }

\* state.piece: None is <<>>, Some(p) is <<p>>.
Pieces ==
    {<<>>} \cup
    {<<[kind |-> k, rotation |-> rot, gx |-> gx, gy |-> 0]>> :
        k \in Kinds, rot \in 0 .. 3, gx \in {0, GRAIN_SCALE}}

SearchIdle ==
    /\ state = <<>> /\ base_grid = <<>> /\ best = <<>> /\ r = 0 /\ step = 0
    /\ log = <<>> /\ actions = <<>> /\ search_pc = "idle"

SearchInit ==
    /\ state \in [piece : Pieces, pf : Playfields, frozen : FrozenLists,
                  gw : {GridW}, gh : {GridH}]
    /\ base_grid = <<>> /\ best = <<>> /\ r = 0 /\ step = 0
    /\ log = <<>> /\ actions = <<>> /\ search_pc = "start"

\* let blocks_wide = gw as i32 / GRAIN_SCALE as i32;
blocks_wide == TruncDiv(state.gw, GRAIN_SCALE)
min_step == 0 - blocks_wide - 1
max_step == blocks_wide + 1

piece == state.piece[1]
initial_gx == piece.gx
target_gx == initial_gx + step * GRAIN_SCALE
test_piece == [piece EXCEPT !.rotation = r, !.gx = target_gx, !.gy = 0]

\* None => return VecDeque::new()
FindNoPiece ==
    /\ search_pc = "start"
    /\ state.piece = <<>>
    /\ actions' = <<>>
    /\ search_pc' = "done"
    /\ UNCHANGED <<state, base_grid, best, r, step, log>>
    /\ UNCHANGED <<settle_vars, eval_vars, build_vars>>

\* lines 33-50: the snapshot, the initial best, the step range
FindBegin ==
    /\ search_pc = "start"
    /\ state.piece # <<>>
    /\ base_grid' = snapshot_grid(state.pf, state.frozen, state.gw, state.gh)
    /\ best' = [score |-> NEG_INFINITY, rotation |-> 0,
                target_gx |-> initial_gx, initial_gx |-> initial_gx]
    /\ r' = 0
    /\ step' = min_step
    /\ search_pc' = "loop"
    /\ UNCHANGED <<state, log, actions>>
    /\ UNCHANGED <<settle_vars, eval_vars, build_vars>>

\* The next (r, step) of `for r in 0..4u8 { for step in min_step..=max_step`.
Advance ==
    IF step < max_step
    THEN r' = r /\ step' = step + 1 /\ search_pc' = "loop"
    ELSE IF r < 3
    THEN r' = r + 1 /\ step' = min_step /\ search_pc' = "loop"
    ELSE r' = r /\ step' = step /\ search_pc' = "build"

BoundsReject ==
    \/ target_gx < 0 - GRAIN_SCALE * 2
    \/ target_gx > state.gw + GRAIN_SCALE

\* Quick bounds reject: continue
CandidateOutOfBounds ==
    /\ search_pc = "loop"
    /\ BoundsReject
    /\ Advance
    /\ UNCHANGED <<state, base_grid, best, log, actions>>
    /\ UNCHANGED <<settle_vars, eval_vars, build_vars>>

\* Feasibility at spawn height fails: continue
CandidateInfeasible ==
    /\ search_pc = "loop"
    /\ ~BoundsReject
    /\ ~can_place_with_frozen(state, test_piece)
    /\ Advance
    /\ UNCHANGED <<state, base_grid, best, log, actions>>
    /\ UNCHANGED <<settle_vars, eval_vars, build_vars>>

\* An accepted candidate: lines 77-104.  log keeps what each accepted candidate
\* was and scored, in the order of the loops.
CandidateScored ==
    /\ search_pc = "loop"
    /\ ~BoundsReject
    /\ can_place_with_frozen(state, test_piece)
    /\ LET res == CandidateResult(state, base_grid, test_piece)
       IN  /\ best' = IF ScoreGt(res.score, best.score)
                      THEN [score |-> Finite(res.score), rotation |-> r,
                            target_gx |-> target_gx, initial_gx |-> initial_gx]
                      ELSE best
           /\ log' = Append(log, [rotation |-> r, step |-> step, target_gx |-> target_gx,
                                  land_y |-> res.land_y, score |-> res.score])
    /\ Advance
    /\ UNCHANGED <<state, base_grid, actions>>
    /\ UNCHANGED <<settle_vars, eval_vars, build_vars>>

\* build_actions(piece.rotation, best.rotation, best.initial_gx, best.target_gx)
FindFinish ==
    /\ search_pc = "build"
    /\ actions' = build_actions(piece.rotation, best.rotation,
                                best.initial_gx, best.target_gx)
    /\ search_pc' = "done"
    /\ UNCHANGED <<state, base_grid, best, r, step, log>>
    /\ UNCHANGED <<settle_vars, eval_vars, build_vars>>

-----------------------------------------------------------------------------
(* Specifications *)

InitSettle == SettleInit /\ EvalIdle /\ BuildIdle /\ SearchIdle
NextSettle == SettleStep \/ SettleAgain
SpecSettle == InitSettle /\ [][NextSettle]_vars

InitEval == EvalInit /\ SettleIdle /\ BuildIdle /\ SearchIdle
NextEval == EvaluateTerms
SpecEval == InitEval /\ [][NextEval]_vars

InitDanger == DangerInit /\ SettleIdle /\ BuildIdle /\ SearchIdle
NextDanger == EvaluateDanger
SpecDanger == InitDanger /\ [][NextDanger]_vars

InitBuild == BuildInit /\ SettleIdle /\ EvalIdle /\ SearchIdle
NextBuild == Build
SpecBuild == InitBuild /\ [][NextBuild]_vars

Init == SearchInit /\ SettleIdle /\ EvalIdle /\ BuildIdle
Next ==
    \/ FindNoPiece
    \/ FindBegin
    \/ CandidateOutOfBounds
    \/ CandidateInfeasible
    \/ CandidateScored
    \/ FindFinish
Spec == Init /\ [][Next]_vars

-----------------------------------------------------------------------------
(* Properties of settle_sand, checked under SpecSettle *)

\* C2: after every pass of settle_sand, and so when it returns, the number of
\* occupied cells of the grid is the number the input grid had: a pass only
\* moves a grain into a cell that was empty.
C2_GrainsConserved == Occupied(grid) = Occupied(grid_in)

\* Some run took three passes or more and returned a grid other than its input.
C2_Witness ==
    /\ settle_pc = "done" /\ run = 1 /\ pass >= 3
    /\ grid # grid_in

\* C3: when the first run stopped on a pass that moved nothing, the second run,
\* on the grid the first returned, stops after its pass 0 with nothing moved
\* and the grid unchanged.
C3_SecondRunIdle ==
    (run = 2 /\ first_conv /\ pass >= 1) =>
        (grid = first_out /\ ~moved /\ pass = 1 /\ settle_pc = "done")

\* The first run moved grains and stopped on an odd pass (which prefers right);
\* the second run has ended.
C3_Witness ==
    /\ run = 2 /\ first_conv /\ settle_pc = "done"
    /\ first_pass % 2 = 1
    /\ first_out # grid_in

-----------------------------------------------------------------------------
(* Properties of count_spanning_clears and same_color_proximity, checked
   under SpecEval *)

Adjacent8(i, j, gw) ==
    /\ i # j
    /\ Abs(XOf(i, gw) - XOf(j, gw)) <= 1
    /\ Abs(YOf(i, gw) - YOf(j, gw)) <= 1

\* The least set holding S and closed under 8-adjacency among cells of `color`.
RECURSIVE Closure(_, _, _, _, _)
Closure(g, gw, gh, color, S) ==
    LET more == {j \in Cells(gw, gh) :
                    g[j] = color /\ \E i \in S : Adjacent8(i, j, gw)}
    IN  IF more \subseteq S THEN S ELSE Closure(g, gw, gh, color, S \cup more)

\* The same-color 8-connected components of the colors in `colors` that hold a
\* cell of column 0 and a cell of column gw-1.
SpanningComponents(g, gw, gh, colors) ==
    LET comps == {Closure(g, gw, gh, g[i], {i}) :
                     i \in {j \in Cells(gw, gh) : g[j] \in colors /\ XOf(j, gw) = 0}}
    IN  {c \in comps : \E j \in c : XOf(j, gw) = gw - 1}

\* Row y is filled with one color.
FullRow(g, gw, y) ==
    /\ g[y * gw] # 0
    /\ \A x \in 0 .. (gw - 1) : g[y * gw + x] = g[y * gw]

\* The cells of `color` are exactly columns 0..gw-2 of row y.
ShortRun(g, gw, gh, color, y) ==
    \A i \in Cells(gw, gh) :
        g[i] = color <=> (YOf(i, gw) = y /\ XOf(i, gw) < gw - 1)

\* C4: count_spanning_clears returns the number of same-color 8-connected
\* components that hold a cell of column 0 and a cell of column gw-1; a row
\* filled with one color gives at least one; a color whose only cells are a
\* run from column 0 to column gw-2 of one row contributes none.
C4_SpanningClears ==
    eval_pc = "done" =>
        /\ e_out.clears =
              Cardinality(SpanningComponents(e_grid, e_gw, e_gh, 1 .. NUM_COLORS))
        /\ (\E y \in 0 .. (e_gh - 1) : FullRow(e_grid, e_gw, y)) => e_out.clears >= 1
        /\ \A color \in 1 .. NUM_COLORS :
              (\E y \in 0 .. (e_gh - 1) : ShortRun(e_grid, e_gw, e_gh, color, y)) =>
                  e_out.clears =
                      Cardinality(SpanningComponents(e_grid, e_gw, e_gh,
                                                     (1 .. NUM_COLORS) \ {color}))

\* A clear is counted on a grid with no filled row: the component spans the
\* board through a diagonal step.
C4_Witness ==
    /\ eval_pc = "done"
    /\ e_out.clears >= 1
    /\ \A y \in 0 .. (e_gh - 1) : ~FullRow(e_grid, e_gw, y)

\* C10: same_color_proximity returns the number of cells of the placed color
\* that have a same-color neighbour to the left or to the right, each such
\* cell counted once.
C10_ProximityCountsCells ==
    eval_pc = "done" =>
        e_out.proximity =
            Cardinality({i \in Cells(e_gw, e_gh) :
                /\ e_grid[i] = placed_color + 1
                /\ \/ XOf(i, e_gw) > 0 /\ e_grid[i - 1] = placed_color + 1
                   \/ XOf(i, e_gw) + 1 < e_gw /\ e_grid[i + 1] = placed_color + 1})

-----------------------------------------------------------------------------
(* The danger term of evaluate, checked under SpecDanger *)

-----------------------------------------------------------------------------
(* Properties of build_actions, checked under SpecBuild *)

\* The pose after the actions: RotateCw turns by one, a lateral move shifts by
\* one block.
RECURSIVE Replay(_, _, _)
Replay(seq, rot, gx) ==
    IF seq = <<>> THEN <<rot, gx>>
    ELSE CASE Head(seq) = "RotateCw"  -> Replay(Tail(seq), (rot + 1) % 4, gx)
           [] Head(seq) = "MoveLeft"  -> Replay(Tail(seq), rot, gx - GRAIN_SCALE)
           [] Head(seq) = "MoveRight" -> Replay(Tail(seq), rot, gx + GRAIN_SCALE)
           [] OTHER                   -> Replay(Tail(seq), rot, gx)

\* C9: for columns a whole number of blocks apart, build_actions gives
\* (target_rot - cur_rot) mod 4 RotateCw, then |target_gx - cur_gx|/GRAIN_SCALE
\* moves toward the target, then one HardDrop; replayed on the current pose the
\* actions reach the target pose.
C9_BuildActions ==
    (build_pc = "done" /\ (b_in.target_gx - b_in.cur_gx) % GRAIN_SCALE = 0) =>
        LET k == (b_in.target_rot - b_in.cur_rot) % 4
            m == Abs(b_in.target_gx - b_in.cur_gx) \div GRAIN_SCALE
            dir == IF b_in.target_gx < b_in.cur_gx THEN "MoveLeft" ELSE "MoveRight"
        IN  /\ k <= 3
            /\ b_actions = Repeat("RotateCw", k) \o Repeat(dir, m) \o <<"HardDrop">>
            /\ Replay(b_actions, b_in.cur_rot, b_in.cur_gx)
                  = <<b_in.target_rot, b_in.target_gx>>
            /\ (b_in.target_rot = b_in.cur_rot /\ b_in.target_gx = b_in.cur_gx)
                  => b_actions = <<"HardDrop">>

\* Three rotations (one counter-clockwise turn would do) and two moves left.
C9_Witness ==
    /\ build_pc = "done"
    /\ b_in.target_rot = (b_in.cur_rot + 3) % 4
    /\ b_in.target_gx = b_in.cur_gx - 2 * GRAIN_SCALE
    /\ Len(b_actions) = 6

-----------------------------------------------------------------------------
(* Properties of Bot::find_best_move, checked under Spec *)

IsLateral(a) == a \in {"MoveLeft", "MoveRight"}

\* C1: with a piece active, the sequence find_best_move returns is RotateCw^k,
\* then lateral moves all of one direction, then one HardDrop, which is last.
C1_ActionShape ==
    (search_pc = "done" /\ state.piece # <<>>) =>
        LET n == Len(actions)
        IN  /\ n >= 1
            /\ actions[n] = "HardDrop"
            /\ \A i \in 1 .. (n - 1) : actions[i] \in {"RotateCw", "MoveLeft", "MoveRight"}
            /\ \A i, j \in 1 .. (n - 1) :
                  (i < j /\ IsLateral(actions[i])) => actions[j] = actions[i]

\* A returned sequence with a rotation and a lateral move.
C1_Witness ==
    /\ search_pc = "done" /\ state.piece # <<>>
    /\ \E i, j \in 1 .. Len(actions) : actions[i] = "RotateCw" /\ IsLateral(actions[j])

\* C6: when no candidate was accepted, the sequence returned is just HardDrop,
\* whatever the piece's rotation.
C6_FallbackIsHardDrop ==
    (search_pc = "done" /\ state.piece # <<>> /\ log = <<>>) =>
        actions = <<"HardDrop">>

\* The pose candidate n of the log was stamped at, moved down by `down` rows.
LoggedPose(n, down) ==
    [piece EXCEPT !.rotation = log[n].rotation, !.gx = log[n].target_gx,
                  !.gy = log[n].land_y + down]

\* C7: every accepted candidate is stamped at a row where it is collision-free
\* on the snapshot grid and one row above a row where it is not; the candidate
\* chosen is one of them.
C7_LandingValid ==
    /\ \A n \in 1 .. Len(log) :
          /\ can_place_on_grid(base_grid, state.gw, state.gh, LoggedPose(n, 0))
          /\ ~can_place_on_grid(base_grid, state.gw, state.gh, LoggedPose(n, 1))
    /\ (search_pc = "done" /\ log # <<>>) =>
          \E n \in 1 .. Len(log) :
              /\ log[n].rotation = best.rotation
              /\ log[n].target_gx = best.target_gx

\* One search with a candidate that lands where it spawned and one that falls,
\* on a board with a frozen grain in the snapshot.
C7_Witness ==
    /\ search_pc = "done"
    /\ \E n, m \in 1 .. Len(log) : log[n].land_y = 0 /\ log[m].land_y > 0
    /\ \E n \in 1 .. Len(state.frozen) : state.frozen[n].x < state.gw

\* The candidates that pass the bounds reject and the spawn check, as
\* <<rotation, step>>.
Accepted ==
    {c \in (0 .. 3) \X (min_step .. max_step) :
        LET gx == initial_gx + c[2] * GRAIN_SCALE
        IN  /\ ~(gx < 0 - GRAIN_SCALE * 2 \/ gx > state.gw + GRAIN_SCALE)
            /\ can_place_with_frozen(state,
                   [piece EXCEPT !.rotation = c[1], !.gx = gx, !.gy = 0])}

\* C8: the candidates scored are those accepted, in rotation-major order and
\* ascending step; the one handed to build_actions has the maximum score, and
\* is the first in that order that has it.
C8_FirstMaximum ==
    (search_pc = "done" /\ log # <<>>) =>
        /\ {<<log[n].rotation, log[n].step>> : n \in 1 .. Len(log)} = Accepted
        /\ \A n \in 1 .. (Len(log) - 1) :
              \/ log[n].rotation < log[n + 1].rotation
              \/ log[n].rotation = log[n + 1].rotation /\ log[n].step < log[n + 1].step
        /\ \E n \in 1 .. Len(log) :
              /\ best.rotation = log[n].rotation
              /\ best.target_gx = initial_gx + log[n].step * GRAIN_SCALE
              /\ best.score = Finite(log[n].score)
              /\ \A m \in 1 .. Len(log) : log[m].score <= log[n].score
              /\ \A m \in 1 .. (n - 1) : log[m].score < log[n].score

\* The best candidate is not the first scored, and a later one ties with it.
C8_Witness ==
    /\ search_pc = "done"
    /\ \E n, m \in 1 .. Len(log) :
          /\ 1 < n /\ n < m
          /\ best.rotation = log[n].rotation /\ best.target_gx = log[n].target_gx
          /\ log[m].score = log[n].score

====
